---- MODULE Spec2Model ----
(***************************************************************************)
(* A model of amazon_item_lookup.py: the AmazonItemLookup client.          *)
(*                                                                         *)
(*   gen_item_lookup_request_url   builds the signed ItemLookup URL        *)
(*   parse_item_response           maps the xmltodict tree to a record     *)
(*   get_item_info                 sign, HTTP GET, parse on status 200     *)
(*                                                                         *)
(* Python values.  A str is a sequence of one-character strings, so that   *)
(* sorting, percent-encoding and formatting work on the characters.  The   *)
(* values of the tree that xmltodict returns are tagged, because the code  *)
(* branches on their type (isinstance, `in`, .get, truthiness):            *)
(*     [str |-> chars]   [list |-> <<nodes>>]   [dict |-> [key |-> node]]  *)
(*     [none |-> TRUE]                                                     *)
(* The dicts and lists that the code itself builds with literals (parsed,  *)
(* url_params) are TLA+ functions and sequences; a dict's keys are TLA+    *)
(* strings.  An operation that can raise returns [err |-> name] or         *)
(* [val |-> value].                                                        *)
(***************************************************************************)
EXTENDS Integers, Sequences, FiniteSets, TLC

VARIABLES
    self,            \* the client: aws_access_key, aws_secret_key, associate_tag
    item_id,         \* get_item_info's argument
    now,             \* what time.strftime(..., time.gmtime()) returns in this call
    mac,             \* the 32 bytes hmac.new(...).digest() returns in this call
    pc,              \* get_item_info's position
    url,             \* get_item_info's local: the signed URL
    string_to_sign,  \* the message gen_item_lookup_request_url handed to hmac.new
    resp,            \* get_item_info's local: [status_code, content]
    response,        \* parse_item_response's argument
    parse_result,    \* the outcome of parse_item_response, and what it printed
    info,            \* the outcome of get_item_info
    calls            \* get_item_info's calls so far, in order: [op, arg]

vars == <<self, item_id, now, mac, pc, url, string_to_sign, resp,
          response, parse_result, info, calls>>

(***************************************************************************)
(* Python values                                                           *)
(***************************************************************************)
Str(s) == [str |-> s]
List(q) == [list |-> q]
Dict(f) == [dict |-> f]
None == [none |-> TRUE]

IsStr(x) == "str" \in DOMAIN x
IsList(x) == "list" \in DOMAIN x
IsDict(x) == "dict" \in DOMAIN x
IsNone(x) == "none" \in DOMAIN x

Err(e) == [err |-> e]
Val(v) == [val |-> v]
IsErr(r) == "err" \in DOMAIN r

\* r, then F on its value unless r raised.
Bind(r, F(_)) == IF IsErr(r) THEN r ELSE F(r.val)

EmptyStr == Str(<<>>)
EmptyDict == <<>>

\* d[k] = v on a dict the code built.
SetKey(d, k, v) == [x \in DOMAIN d \cup {k} |-> IF x = k THEN v ELSE d[x]]

\* node[key] with a str key.
GetItem(node, key) ==
    IF IsDict(node)
    THEN IF key \in DOMAIN node.dict THEN Val(node.dict[key]) ELSE Err("KeyError")
    ELSE Err("TypeError")

\* node[k1][k2]...[kn]
RECURSIVE GetPath(_, _)
GetPath(node, path) ==
    IF path = <<>> THEN Val(node)
    ELSE Bind(GetItem(node, Head(path)), LAMBDA n : GetPath(n, Tail(path)))

\* node[0]
GetFirst(node) ==
    IF IsList(node)
    THEN IF Len(node.list) > 0 THEN Val(node.list[1]) ELSE Err("IndexError")
    ELSE IF IsStr(node)
    THEN IF Len(node.str) > 0 THEN Val(Str(<<node.str[1]>>)) ELSE Err("IndexError")
    ELSE IF IsDict(node) THEN Err("KeyError")
    ELSE Err("TypeError")

\* key in node, for a dict, a list or None (no document of the model applies
\* it to a text node).
Contains(node, key) ==
    CASE IsDict(node) -> Val(key \in DOMAIN node.dict)
      [] IsList(node) -> Val(\E i \in 1..Len(node.list) : node.list[i] = Str(key))
      [] IsNone(node) -> Err("TypeError")

\* node.get(key, default)
Get(node, key, default) ==
    IF IsDict(node)
    THEN Val(IF key \in DOMAIN node.dict THEN node.dict[key] ELSE default)
    ELSE Err("AttributeError")

\* bool(node)
Truthy(node) ==
    CASE IsDict(node) -> DOMAIN node.dict # {}
      [] IsList(node) -> Len(node.list) > 0
      [] IsStr(node) -> Len(node.str) > 0
      [] IsNone(node) -> FALSE

\* '{} ({})'.format(a, b) for two text values.
Format(a, b) == Str(a.str \o <<" ", "(">> \o b.str \o <<")">>)

(***************************************************************************)
(* parse_item_response                                                     *)
(***************************************************************************)
\* xmltodict.parse(response): the tree of a well-formed body; a body that is
\* not XML raises.  The tree is the model's input as it stands.
Malformed == [malformed |-> TRUE]
xmltodict_parse(body) ==
    IF "malformed" \in DOMAIN body THEN Err("ExpatError") ELSE Val(body)

\* 'Error: Invalid lookup!'
InvalidLookupMessage ==
    Str(<<"E", "r", "r", "o", "r", ":", " ", "I", "n", "v", "a", "l", "i", "d",
          " ", "l", "o", "o", "k", "u", "p", "!">>)

FalseText == Str(<<"F", "a", "l", "s", "e">>)
TrueText == Str(<<"T", "r", "u", "e">>)

RequestPath == <<"ItemLookupResponse", "Items", "Request">>
ItemPath == <<"ItemLookupResponse", "Items", "Item">>

\* The default structure that holds the parsed data.
DefaultParsed ==
    [item_attributes |->
        [title |-> EmptyStr,
         manufacturer |-> EmptyStr,
         item_dimensions |->
            [height |-> EmptyStr, length |-> EmptyStr,
             weight |-> EmptyStr, width |-> EmptyStr],
         size |-> EmptyStr,
         warranty |-> EmptyStr,
         features |-> <<>>],
     url |-> EmptyStr,
     images |->
        [small |-> [height |-> EmptyStr, width |-> EmptyStr, url |-> EmptyStr],
         medium |-> [height |-> EmptyStr, width |-> EmptyStr, url |-> EmptyStr],
         large |-> [height |-> EmptyStr, width |-> EmptyStr, url |-> EmptyStr]],
     sales_rank |-> EmptyStr,
     price |-> EmptyStr,
     description |-> EmptyStr]

\* if 'Feature' in item['ItemAttributes']:
\*     if isinstance(..., list): features.extend(...)
\* else:
\*     features.append(item['ItemAttributes']['Feature'])
ParseFeatures(item, parsed) ==
    Bind(GetItem(item, "ItemAttributes"), LAMBDA ia :
    Bind(Contains(ia, "Feature"), LAMBDA has :
        IF has
        THEN Bind(GetItem(ia, "Feature"), LAMBDA f :
                IF IsList(f)
                THEN Val([parsed EXCEPT !.item_attributes.features = @ \o f.list])
                ELSE Val(parsed))
        ELSE Bind(GetItem(ia, "Feature"), LAMBDA f :
                Val([parsed EXCEPT !.item_attributes.features = Append(@, f)]))))

\* if key in item_dimensions:
\*     parsed[...][field] = '{} ({})'.format(d[key]['#text'], d[key]['@Units'])
ParseDimension(item_dimensions, key, field, parsed) ==
    Bind(Contains(item_dimensions, key), LAMBDA has :
        IF has
        THEN Bind(GetPath(item_dimensions, <<key, "#text">>), LAMBDA t :
             Bind(GetPath(item_dimensions, <<key, "@Units">>), LAMBDA u :
                Val([parsed EXCEPT
                        !.item_attributes.item_dimensions[field] = Format(t, u)])))
        ELSE Val(parsed))

ParseItemDimensions(item, parsed) ==
    Bind(GetItem(item, "ItemAttributes"), LAMBDA ia :
    Bind(Get(ia, "ItemDimensions", Dict(EmptyDict)), LAMBDA item_dimensions :
        IF Truthy(item_dimensions)
        THEN Bind(ParseDimension(item_dimensions, "Height", "height", parsed), LAMBDA p1 :
             Bind(ParseDimension(item_dimensions, "Length", "length", p1), LAMBDA p2 :
             Bind(ParseDimension(item_dimensions, "Weight", "weight", p2), LAMBDA p3 :
                  ParseDimension(item_dimensions, "Width", "width", p3))))
        ELSE Val(parsed)))

\* The remaining item attributes; 'model' is a key the default structure
\* does not hold.
ParseItemAttributes(item, parsed) ==
    Bind(GetItem(item, "ItemAttributes"), LAMBDA ia :
    Bind(Get(ia, "Title", EmptyStr), LAMBDA title :
    Bind(Get(ia, "Manufacturer", EmptyStr), LAMBDA manufacturer :
    Bind(Get(ia, "Model", EmptyStr), LAMBDA model :
    Bind(Get(ia, "Size", EmptyStr), LAMBDA size :
    Bind(Get(ia, "Warranty", EmptyStr), LAMBDA warranty :
        Val([parsed EXCEPT !.item_attributes =
                SetKey([@ EXCEPT !.title = title,
                                 !.manufacturer = manufacturer,
                                 !.size = size,
                                 !.warranty = warranty],
                       "model", model)])))))))

ParseUrl(item, parsed) ==
    Bind(Get(item, "DetailPageURL", EmptyStr), LAMBDA u :
        Val([parsed EXCEPT !.url = u]))

\* if image in item: height, width from item[dims]; url from item[image]
ParseImage(item, image, dims, field, parsed) ==
    Bind(Contains(item, image), LAMBDA has :
        IF has
        THEN Bind(GetPath(item, <<dims, "Height", "#text">>), LAMBDA h :
             Bind(GetPath(item, <<dims, "Width", "#text">>), LAMBDA w :
             Bind(GetPath(item, <<image, "URL">>), LAMBDA u :
                Val([parsed EXCEPT !.images[field] =
                        [height |-> h, width |-> w, url |-> u]]))))
        ELSE Val(parsed))

\* The element whose Height and Width the medium image's fields are read from.
MediumImageDims == "SmallImage"

ParseImages(item, parsed) ==
    Bind(ParseImage(item, "SmallImage", "SmallImage", "small", parsed), LAMBDA p1 :
    Bind(ParseImage(item, "MediumImage", MediumImageDims, "medium", p1), LAMBDA p2 :
         ParseImage(item, "LargeImage", "LargeImage", "large", p2)))

ParseSalesRank(item, parsed) ==
    Bind(Get(item, "SalesRank", EmptyStr), LAMBDA r :
        Val([parsed EXCEPT !.sales_rank = r]))

\* The offer whose FormattedPrice is the price.
PriceOffer == "LowestNewPrice"

\* if 'OfferSummary' in item and 'LowestNewPrice' in item['OfferSummary']:
\*     parsed['price'] = item['OfferSummary']['LowestNewPrice'].get('FormattedPrice', '')
ParsePrice(item, parsed) ==
    Bind(Contains(item, "OfferSummary"), LAMBDA has :
        IF ~has THEN Val(parsed)
        ELSE Bind(GetItem(item, "OfferSummary"), LAMBDA summary :
             Bind(Contains(summary, PriceOffer), LAMBDA offered :
                IF ~offered THEN Val(parsed)
                ELSE Bind(GetItem(summary, PriceOffer), LAMBDA offer :
                     Bind(Get(offer, "FormattedPrice", EmptyStr), LAMBDA price :
                        Val([parsed EXCEPT !.price = price]))))))

\* if 'EditorialReviews' in item:
\*     if isinstance(item['EditorialReviews'], list):
\*         parsed['description'] = item['EditorialReviews'][0]
\*     else:
\*         parsed['description'] = item['EditorialReviews']['EditorialReview']['Content']
ParseDescription(item, parsed) ==
    Bind(Contains(item, "EditorialReviews"), LAMBDA has :
        IF ~has THEN Val(parsed)
        ELSE Bind(GetItem(item, "EditorialReviews"), LAMBDA reviews :
                IF IsList(reviews)
                THEN Bind(GetFirst(reviews), LAMBDA d :
                        Val([parsed EXCEPT !.description = d]))
                ELSE Bind(GetPath(reviews, <<"EditorialReview", "Content">>), LAMBDA d :
                        Val([parsed EXCEPT !.description = d]))))

\* Lines 120-221: the extraction from a document that is not reported invalid.
ExtractItem(result) ==
    Bind(GetPath(result, ItemPath), LAMBDA item :
    Bind(ParseFeatures(item, DefaultParsed), LAMBDA p1 :
    Bind(ParseItemDimensions(item, p1), LAMBDA p2 :
    Bind(ParseItemAttributes(item, p2), LAMBDA p3 :
    Bind(ParseUrl(item, p3), LAMBDA p4 :
    Bind(ParseImages(item, p4), LAMBDA p5 :
    Bind(ParseSalesRank(item, p5), LAMBDA p6 :
    Bind(ParsePrice(item, p6), LAMBDA p7 :
         ParseDescription(item, p7)))))))))

\* What the call leaves behind: it raised err, or returned ret; out is what
\* it printed, and extracted says whether the field extraction was entered.
Raised(e, printed, entered) == [err |-> e, out |-> printed, extracted |-> entered]
Returned(v, printed, entered) == [ret |-> v, out |-> printed, extracted |-> entered]

\* Lines 113-118: the request is reported invalid.  print the embedded
\* message; a KeyError on the way to it prints the generic message instead.
InvalidRequest(result) ==
    LET msg == GetPath(result, RequestPath \o <<"Errors", "Error", "Message">>)
    IN  IF ~IsErr(msg) THEN Returned(EmptyDict, <<msg.val>>, FALSE)
        ELSE IF msg.err = "KeyError"
        THEN Returned(EmptyDict, <<InvalidLookupMessage>>, FALSE)
        ELSE Raised(msg.err, <<>>, FALSE)

parse_item_response(body) ==
    LET result == xmltodict_parse(body)
    IN  IF IsErr(result) THEN Raised(result.err, <<>>, FALSE)
        ELSE LET is_valid == GetPath(result.val, RequestPath \o <<"IsValid">>)
             IN  IF IsErr(is_valid) THEN Raised(is_valid.err, <<>>, FALSE)
                 ELSE IF is_valid.val = FalseText THEN InvalidRequest(result.val)
                 ELSE LET parsed == ExtractItem(result.val)
                      IN  IF IsErr(parsed) THEN Raised(parsed.err, <<>>, TRUE)
                          ELSE Returned(parsed.val, <<>>, TRUE)

(***************************************************************************)
(* The documents: the trees xmltodict returns for ItemLookup responses.    *)
(* An element with text only is a str, one with attributes or children a   *)
(* dict ('#text', '@Units'), one that occurs n >= 2 times a list, and an   *)
(* element with no content None.                                           *)
(***************************************************************************)
\* The longest Feature list of the documents.
MaxFeatures == 3

Digits == <<"0", "1", "2", "3", "4", "5", "6", "7", "8", "9">>
Text(c, i) == Str(<<c, Digits[i + 1]>>)

\* <Height Units="...">n</Height>
Measure(c, i, units) == Dict(("#text" :> Text(c, i)) @@ ("@Units" :> Str(units)))
Inches == <<"i", "n">>
Pounds == <<"l", "b">>
Pixels == <<"p", "x">>

Element(f) == IF DOMAIN f = {} THEN None ELSE Dict(f)

FeatureText(i) == Text("f", i)
FeaturePart(n) ==
    IF n = 0 THEN <<>>
    ELSE IF n = 1 THEN [Feature |-> FeatureText(1)]
    ELSE [Feature |-> List([i \in 1..n |-> FeatureText(i)])]

AttributeChoices == {"none", "other", "all"}
AttributePart(c) ==
    IF c = "none" THEN <<>>
    ELSE IF c = "other" THEN [ProductGroup |-> Text("p", 1)]
    ELSE [Title |-> Text("t", 1), Manufacturer |-> Text("m", 1),
          Model |-> Text("o", 1), Size |-> Text("s", 1), Warranty |-> Text("w", 1),
          ProductGroup |-> Text("p", 1)]

DimensionChoices == {"absent", "height", "all"}
DimensionPart(c) ==
    CASE c = "absent" -> <<>>
      [] c = "height" -> [ItemDimensions |-> Dict([Height |-> Measure("h", 1, Inches)])]
      [] c = "all" ->
            [ItemDimensions |->
                Dict([Height |-> Measure("h", 1, Inches),
                      Length |-> Measure("l", 2, Inches),
                      Weight |-> Measure("g", 3, Pounds),
                      Width |-> Measure("w", 4, Inches)])]

ImageNames == {"SmallImage", "MediumImage", "LargeImage"}
ImageNumber(name) ==
    CASE name = "SmallImage" -> 1 [] name = "MediumImage" -> 2 [] name = "LargeImage" -> 3
Image(name) ==
    Dict([URL |-> Text("u", ImageNumber(name)),
          Height |-> Measure("h", ImageNumber(name), Pixels),
          Width |-> Measure("w", ImageNumber(name), Pixels)])
ImagePart(present) == [name \in present |-> Image(name)]

Price(i) == Dict([Amount |-> Text("a", i), FormattedPrice |-> Text("$", i)])
OfferChoices == {"absent", "empty", "used", "text", "unformatted", "new", "both"}
OfferPart(c) ==
    CASE c = "absent" -> <<>>
      [] c = "empty" -> [OfferSummary |-> None]
      [] c = "used" -> [OfferSummary |-> Dict([LowestUsedPrice |-> Price(2)])]
      [] c = "text" ->
            [OfferSummary |-> Dict([LowestNewPrice |-> Text("n", 1),
                                    LowestUsedPrice |-> Price(2)])]
      [] c = "unformatted" ->
            [OfferSummary |-> Dict([LowestNewPrice |-> Dict([Amount |-> Text("a", 1)]),
                                    LowestUsedPrice |-> Price(2)])]
      [] c = "new" -> [OfferSummary |-> Dict([LowestNewPrice |-> Price(1)])]
      [] c = "both" ->
            [OfferSummary |-> Dict([LowestNewPrice |-> Price(1),
                                    LowestUsedPrice |-> Price(2),
                                    LowestCollectiblePrice |-> Price(3)])]

Review(i) == Dict([Source |-> Text("s", i), Content |-> Text("c", i)])
ReviewChoices == {"absent", "single", "repeated", "blocks"}
ReviewPart(c) ==
    CASE c = "absent" -> <<>>
      [] c = "single" -> [EditorialReviews |-> Dict([EditorialReview |-> Review(1)])]
      [] c = "repeated" ->
            [EditorialReviews |-> Dict([EditorialReview |-> List(<<Review(1), Review(2)>>)])]
      [] c = "blocks" ->
            [EditorialReviews |->
                List(<<Dict([EditorialReview |-> Review(1)]),
                       Dict([EditorialReview |-> Review(2)])>>)]

LinkChoices == {"none", "all"}
LinkPart(c) ==
    IF c = "none" THEN <<>>
    ELSE [DetailPageURL |-> Text("d", 1), SalesRank |-> Text("r", 1)]

Item(n, attrs, dims, images, offer, review, links) ==
    Dict([ASIN |-> Text("B", 0),
          ItemAttributes |-> Element(FeaturePart(n) @@ AttributePart(attrs) @@ DimensionPart(dims))]
         @@ ImagePart(images) @@ OfferPart(offer) @@ ReviewPart(review) @@ LinkPart(links))

Items ==
    {Item(n, attrs, dims, images, offer, review, links) :
        n \in 0..MaxFeatures, attrs \in AttributeChoices, dims \in DimensionChoices,
        images \in SUBSET ImageNames, offer \in OfferChoices,
        review \in ReviewChoices, links \in LinkChoices}

Envelope(items) == Dict([ItemLookupResponse |-> Dict([Items |-> Dict(items)])])

ValidDocuments ==
    {Envelope([Request |-> Dict([IsValid |-> TrueText]), Item |-> item]) : item \in Items}

ErrorEntry(i) == Dict([Code |-> Text("e", i), Message |-> Text("M", i)])
ErrorChoices ==
    {"absent", "empty", "emptyentry", "text", "message", "nomessage", "several"}
ErrorPart(c) ==
    CASE c = "absent" -> <<>>
      [] c = "empty" -> [Errors |-> None]
      [] c = "emptyentry" -> [Errors |-> Dict([Error |-> None])]
      [] c = "text" -> [Errors |-> Dict([Error |-> Text("M", 1)])]
      [] c = "message" -> [Errors |-> Dict([Error |-> ErrorEntry(1)])]
      [] c = "nomessage" -> [Errors |-> Dict([Error |-> Dict([Code |-> Text("e", 1)])])]
      [] c = "several" -> [Errors |-> Dict([Error |-> List(<<ErrorEntry(1), ErrorEntry(2)>>)])]

FullItem ==
    Item(2, "all", "all", ImageNames, "both", "single", "all")

InvalidDocuments ==
    {Envelope([Request |-> Dict([IsValid |-> FalseText] @@ ErrorPart(c))] @@ item) :
        c \in ErrorChoices, item \in {<<>>, [Item |-> FullItem]}}

Documents == ValidDocuments \cup InvalidDocuments \cup {Malformed}

(***************************************************************************)
(* gen_item_lookup_request_url                                             *)
(***************************************************************************)
\* The printable ASCII characters, from ' ' (32) to '~' (126); the entry of
\* the grave accent (96), which no value of the model holds, is left empty.
Ascii ==
    <<" ", "!", "\"", "#", "$", "%", "&", "'", "(", ")", "*", "+", ",", "-", ".", "/",
        "0", "1", "2", "3", "4", "5", "6", "7", "8", "9", ":", ";", "<", "=", ">", "?",
        "@", "A", "B", "C", "D", "E", "F", "G", "H", "I", "J", "K", "L", "M", "N", "O",
        "P", "Q", "R", "S", "T", "U", "V", "W", "X", "Y", "Z", "[", "\\", "]", "^", "_",
        "", "a", "b", "c", "d", "e", "f", "g", "h", "i", "j", "k", "l", "m", "n", "o",
        "p", "q", "r", "s", "t", "u", "v", "w", "x", "y", "z", "{", "|", "}", "~">>
AsciiBase == 31

\* ord(c)
Ord(c) == AsciiBase + (CHOOSE i \in 1..Len(Ascii) : Ascii[i] = c)

\* a < b for two str: the comparison of list.sort(), byte by byte.
RECURSIVE StrLessFrom(_, _, _)
StrLessFrom(a, b, i) ==
    IF i > Len(b) THEN FALSE
    ELSE IF i > Len(a) THEN TRUE
    ELSE IF a[i] = b[i] THEN StrLessFrom(a, b, i + 1)
    ELSE Ord(a[i]) < Ord(b[i])
StrLess(a, b) == StrLessFrom(a, b, 1)

\* Sorted with a fault: the keys in descending order (sort(reverse=True)).
RECURSIVE SortedDescending(_)
SortedDescending(keys) ==
    IF keys = {} THEN <<>>
    ELSE LET greatest == CHOOSE k \in keys : \A other \in keys \ {k} : StrLess(other, k)
         IN  <<greatest>> \o SortedDescending(keys \ {greatest})

\* keys.sort(): the keys in ascending order.
RECURSIVE Sorted(_)
Sorted(keys) ==
    IF keys = {} THEN <<>>
    ELSE LET least == CHOOSE k \in keys : \A other \in keys \ {k} : StrLess(k, other)
         IN  <<least>> \o Sorted(keys \ {least})

\* urllib.always_safe: letters, digits and '_.-'.
AlwaysSafe ==
    { Ascii[i] : i \in 1..Len(Ascii) } \cap
    { "A", "B", "C", "D", "E", "F", "G", "H", "I", "J", "K", "L", "M", "N", "O", "P",
        "Q", "R", "S", "T", "U", "V", "W", "X", "Y", "Z", "a", "b", "c", "d", "e", "f",
        "g", "h", "i", "j", "k", "l", "m", "n", "o", "p", "q", "r", "s", "t", "u", "v",
        "w", "x", "y", "z", "0", "1", "2", "3", "4", "5", "6", "7", "8", "9", "_", ".",
        "-" }

HexDigits == <<"0", "1", "2", "3", "4", "5", "6", "7", "8", "9", "A", "B", "C", "D", "E", "F">>
HexBase == 16

\* '%%%02X' % ord(c)
PercentEncoded(c) ==
    <<"%", HexDigits[(Ord(c) \div HexBase) + 1], HexDigits[(Ord(c) % HexBase) + 1]>>

\* urllib.quote_plus(s): quote(s, ' ') and then ' ' replaced by '+'.
QuoteChar(c) ==
    IF c \in AlwaysSafe THEN <<c>>
    ELSE IF c = " " THEN <<"+">>
    ELSE PercentEncoded(c)

RECURSIVE QuoteFrom(_, _)
QuoteFrom(s, i) == IF i > Len(s) THEN <<>> ELSE QuoteChar(s[i]) \o QuoteFrom(s, i + 1)
quote_plus(s) == QuoteFrom(s, 1)

\* str(v) of a str or of None.
NoneText == <<"N", "o", "n", "e">>
PyStr(v) == IF IsNone(v) THEN NoneText ELSE v.str

\* urllib.urlencode(pairs): quote_plus(str(k)) + '=' + quote_plus(str(v)),
\* joined by '&'.
RECURSIVE UrlencodeFrom(_, _)
UrlencodeFrom(pairs, i) ==
    IF i > Len(pairs) THEN <<>>
    ELSE (IF i = 1 THEN <<>> ELSE <<"&">>)
         \o quote_plus(PyStr(pairs[i][1])) \o <<"=">> \o quote_plus(PyStr(pairs[i][2]))
         \o UrlencodeFrom(pairs, i + 1)
urlencode(pairs) == UrlencodeFrom(pairs, 1)

\* The alphabet of base64.
Base64Alphabet ==
    <<"A", "B", "C", "D", "E", "F", "G", "H", "I", "J", "K", "L", "M", "N", "O", "P",
        "Q", "R", "S", "T", "U", "V", "W", "X", "Y", "Z", "a", "b", "c", "d", "e", "f",
        "g", "h", "i", "j", "k", "l", "m", "n", "o", "p", "q", "r", "s", "t", "u", "v",
        "w", "x", "y", "z", "0", "1", "2", "3", "4", "5", "6", "7", "8", "9", "+", "/">>
Base64Radix == 64
ByteRadix == 256

\* binascii.b2a_base64 of one line of bytes, without its newline.
RECURSIVE Base64From(_, _)
Base64From(bytes, i) ==
    LET left == Len(bytes) - i + 1
        b1 == bytes[i]
        b2 == IF left >= 2 THEN bytes[i + 1] ELSE 0
        b3 == IF left >= 3 THEN bytes[i + 2] ELSE 0
        n == (b1 * ByteRadix + b2) * ByteRadix + b3
        c1 == Base64Alphabet[(n \div (Base64Radix * Base64Radix * Base64Radix)) + 1]
        c2 == Base64Alphabet[((n \div (Base64Radix * Base64Radix)) % Base64Radix) + 1]
        c3 == Base64Alphabet[((n \div Base64Radix) % Base64Radix) + 1]
        c4 == Base64Alphabet[(n % Base64Radix) + 1]
    IN  IF left <= 0 THEN <<>>
        ELSE IF left = 1 THEN <<c1, c2, "=", "=">>
        ELSE IF left = 2 THEN <<c1, c2, c3, "=">>
        ELSE <<c1, c2, c3, c4>> \o Base64From(bytes, i + 3)

\* base64.encodestring(s) for at most 57 bytes: one line, and its newline.
encodestring(bytes) == Base64From(bytes, 1) \o <<"\n">>

\* s.strip()
Whitespace == {" ", "\t", "\n", "\r"}
RECURSIVE strip(_)
strip(s) ==
    IF s = <<>> THEN s
    ELSE IF Head(s) \in Whitespace THEN strip(Tail(s))
    ELSE IF s[Len(s)] \in Whitespace THEN strip(SubSeq(s, 1, Len(s) - 1))
    ELSE s

\* The size of a SHA-256 digest, in bytes.
DigestSize == 32

\* hmac.new(key, msg, hashlib.sha256).digest().  The digest is the call's
\* input `digest`: the model does not compute SHA-256, and every claim is
\* checked for each of the digests.  A key of None raises (len(None)).
hmac_digest(key, msg, digest) ==
    IF IsNone(key) THEN Err("TypeError") ELSE Val(digest)

ServiceValue == Str(<<"A", "W", "S", "E", "C", "o", "m", "m", "e", "r", "c", "e", "S", "e", "r", "v", "i", "c", "e">>)
OperationValue == Str(<<"I", "t", "e", "m", "L", "o", "o", "k", "u", "p">>)
ResponseGroupValue ==
    Str(<<"E", "d", "i", "t", "o", "r", "i", "a", "l", "R", "e", "v", "i", "e", "w", ",",
        "I", "m", "a", "g", "e", "s", ",", "I", "t", "e", "m", "A", "t", "t", "r", "i",
        "b", "u", "t", "e", "s", ",", "O", "f", "f", "e", "r", "S", "u", "m", "m", "a",
        "r", "y", ",", "S", "a", "l", "e", "s", "R", "a", "n", "k">>)
VersionValue == Str(<<"2", "0", "1", "3", "-", "0", "8", "-", "0", "1">>)

\* The dict url_params, its Timestamp entry included.
UrlParams(client, id, timestamp) ==
    (<<"S", "e", "r", "v", "i", "c", "e">> :> ServiceValue)
    @@ (<<"O", "p", "e", "r", "a", "t", "i", "o", "n">> :> OperationValue)
    @@ (<<"A", "W", "S", "A", "c", "c", "e", "s", "s", "K", "e", "y", "I", "d">> :> client.aws_access_key)
    @@ (<<"R", "e", "s", "p", "o", "n", "s", "e", "G", "r", "o", "u", "p">> :> ResponseGroupValue)
    @@ (<<"I", "t", "e", "m", "I", "d">> :> id)
    @@ (<<"A", "s", "s", "o", "c", "i", "a", "t", "e", "T", "a", "g">> :> client.associate_tag)
    @@ (<<"V", "e", "r", "s", "i", "o", "n">> :> VersionValue)
    @@ (<<"T", "i", "m", "e", "s", "t", "a", "m", "p">> :> timestamp)

\* "GET\nwebservices.amazon.com\n/onca/xml\n"
StringToSignPrefix ==
    <<"G", "E", "T", "\n", "w", "e", "b", "s", "e", "r", "v", "i", "c", "e", "s", ".",
        "a", "m", "a", "z", "o", "n", ".", "c", "o", "m", "\n", "/", "o", "n", "c", "a",
        "/", "x", "m", "l", "\n">>
\* "&Signature="
SignatureParameter == <<"&", "S", "i", "g", "n", "a", "t", "u", "r", "e", "=">>
\* "http://webservices.amazon.com/onca/xml?"
Endpoint ==
    <<"h", "t", "t", "p", ":", "/", "/", "w", "e", "b", "s", "e", "r", "v", "i", "c",
        "e", "s", ".", "a", "m", "a", "z", "o", "n", ".", "c", "o", "m", "/", "o", "n",
        "c", "a", "/", "x", "m", "l", "?">>

\* zip(keys, map(url_params.get, keys))
SortedPairs(url_params) ==
    LET keys == Sorted(DOMAIN url_params)
    IN  [i \in 1..Len(keys) |-> <<Str(keys[i]), url_params[keys[i]]>>]

\* The canonical string that is signed, and the one the URL carries.
CanonicalString(url_params) == urlencode(SortedPairs(url_params))

\* gen_item_lookup_request_url with a fault: the values are encoded a second
\* time when the URL is put together, and once in the string to sign.
GenUrlEncodedAgain(client, id, timestamp, digest) ==
    LET canonical_string == CanonicalString(UrlParams(client, id, timestamp))
        msg == StringToSignPrefix \o canonical_string
    IN  Bind(hmac_digest(client.aws_secret_key, msg, digest), LAMBDA signature :
            Val([url |-> Str(Endpoint
                             \o urlencode(SortedPairs(
                                    [k \in DOMAIN UrlParams(client, id, timestamp) |->
                                        Str(quote_plus(PyStr(UrlParams(client, id, timestamp)[k])))]))
                             \o SignatureParameter
                             \o quote_plus(strip(encodestring(signature)))),
                 string_to_sign |-> Str(msg)]))

gen_item_lookup_request_url(client, id, timestamp, digest) ==
    LET canonical_string == CanonicalString(UrlParams(client, id, timestamp))
        msg == StringToSignPrefix \o canonical_string
    IN  Bind(hmac_digest(client.aws_secret_key, msg, digest), LAMBDA signature :
            Val([url |-> Str(Endpoint \o canonical_string \o SignatureParameter
                             \o quote_plus(strip(encodestring(signature)))),
                 string_to_sign |-> Str(msg)]))

(***************************************************************************)
(* The inputs                                                              *)
(***************************************************************************)
\* A credential is None (os.environ.get of an unset variable), empty or set.
AccessKeys == {None, EmptyStr, Str(<<"A", "K", "I", "A", "1">>)}
SecretKeys == {None, EmptyStr, Str(<<"s", "3", "c", "r", "3", "t">>)}
AssociateTags == {None, EmptyStr, Str(<<"m", "y", " ", "t", "a", "g", "&", "1", "-", "2", "0">>)}
Clients ==
    [aws_access_key : AccessKeys, aws_secret_key : SecretKeys,
     associate_tag : AssociateTags]

ItemIds == {Str(<<"B", "0", "0", "F", "0", "R", "R", "R", "C", "C">>), Str(<<"a", " ", "b", "/", "c", "=", "d", "&", "e", "%", "~">>)}

\* time.strftime("%Y-%m-%dT%H:%M:%SZ", time.gmtime())
Timestamps ==
    {Str(<<"2", "0", "1", "8", "-", "0", "6", "-", "2", "4", "T", "1", "3", ":", "0", "1", ":", "1", "0", "Z">>),
     Str(<<"2", "0", "2", "6", "-", "1", "0", "-", "2", "9", "T", "0", "0", ":", "0", "0", ":", "0", "0", "Z">>)}

\* Digests: all bytes 0, all bytes 255 ('/' in base64), and one whose base64
\* holds '+'.
PlusBytes == <<251, 239, 190>>
Digests ==
    {[i \in 1..DigestSize |-> 0],
     [i \in 1..DigestSize |-> ByteRadix - 1],
     [i \in 1..DigestSize |-> PlusBytes[((i - 1) % Len(PlusBytes)) + 1]]}

\* What the transport may answer.
OkStatus == 200
StatusCodes == {OkStatus, 404, 503}

ValidBody(item) == Envelope([Request |-> Dict([IsValid |-> TrueText]), Item |-> item])
InvalidBody(c) == Envelope([Request |-> Dict([IsValid |-> FalseText] @@ ErrorPart(c))])
Bodies ==
    {Malformed,
     InvalidBody("message"),
     InvalidBody("absent"),
     ValidBody(FullItem),
     ValidBody(Item(0, "none", "absent", {}, "absent", "absent", "none")),
     ValidBody(Item(1, "all", "height", {"MediumImage"}, "used", "blocks", "all")),
     ValidBody(Item(3, "all", "all", {"SmallImage", "LargeImage"}, "new", "absent", "all"))}

(***************************************************************************)
(* The state machine                                                       *)
(***************************************************************************)
\* A variable that holds nothing yet.
Unset == [unset |-> TRUE]
IsSet(v) == "unset" \notin DOMAIN v

NoClient == [aws_access_key |-> None, aws_secret_key |-> None, associate_tag |-> None]

\* get_item_info(item_id) is entered.
Init ==
    /\ self \in Clients
    /\ item_id \in ItemIds
    /\ pc = "sign"
    /\ now = Unset
    /\ mac = Unset
    /\ url = Unset
    /\ string_to_sign = Unset
    /\ resp = Unset
    /\ response = Unset
    /\ parse_result = Unset
    /\ info = Unset
    /\ calls = <<>>

\* url = self.gen_item_lookup_request_url(item_id)
Sign ==
    /\ pc = "sign"
    /\ \E timestamp \in Timestamps, digest \in Digests :
        LET r == gen_item_lookup_request_url(self, item_id, timestamp, digest)
        IN  /\ now' = timestamp
            /\ mac' = digest
            /\ IF IsErr(r)
               THEN /\ info' = Err(r.err)
                    /\ pc' = "done"
                    /\ UNCHANGED <<url, string_to_sign>>
               ELSE /\ url' = r.val.url
                    /\ string_to_sign' = r.val.string_to_sign
                    /\ pc' = "get"
                    /\ UNCHANGED info
    /\ calls' = Append(calls, [op |-> "sign", arg |-> item_id])
    /\ UNCHANGED <<self, item_id, resp, response, parse_result>>

\* resp = requests.get(url): the transport answers with a status and a body,
\* or raises.
HttpGet ==
    /\ pc = "get"
    /\ calls' = Append(calls, [op |-> "get", arg |-> url])
    /\ \/ \E status \in StatusCodes, body \in Bodies :
            /\ resp' = [status_code |-> status, content |-> body]
            /\ pc' = "status"
            /\ UNCHANGED info
       \/ /\ info' = Err("ConnectionError")
          /\ pc' = "done"
          /\ UNCHANGED resp
    /\ UNCHANGED <<self, item_id, now, mac, url, string_to_sign, response, parse_result>>

\* StatusOk with a fault: any status that is not a server error passes.
StatusNotServerError(status) == status < 500

\* if resp.status_code == 200:
StatusOk(status) == status = OkStatus

\* info = self.parse_item_response(resp.content); return info
Normalize ==
    /\ pc = "status"
    /\ StatusOk(resp.status_code)
    /\ LET r == parse_item_response(resp.content)
       IN  /\ response' = resp.content
           /\ parse_result' = r
           /\ info' = IF IsErr(r) THEN Err(r.err) ELSE [ret |-> r.ret]
    /\ calls' = Append(calls, [op |-> "parse", arg |-> resp.content])
    /\ pc' = "done"
    /\ UNCHANGED <<self, item_id, now, mac, url, string_to_sign, resp>>

\* return {}
ReturnEmpty ==
    /\ pc = "status"
    /\ ~StatusOk(resp.status_code)
    /\ info' = [ret |-> EmptyDict]
    /\ pc' = "done"
    /\ UNCHANGED <<self, item_id, now, mac, url, string_to_sign, resp,
                   response, parse_result, calls>>

Next == Sign \/ HttpGet \/ Normalize \/ ReturnEmpty

Spec == Init /\ [][Next]_vars

\* parse_item_response(response) is called on a document.
InitParse ==
    /\ response \in Documents
    /\ pc = "parse"
    /\ self = NoClient
    /\ item_id = Unset
    /\ now = Unset
    /\ mac = Unset
    /\ url = Unset
    /\ string_to_sign = Unset
    /\ resp = Unset
    /\ parse_result = Unset
    /\ info = Unset
    /\ calls = <<>>

ParseItemResponse ==
    /\ pc = "parse"
    /\ parse_result' = parse_item_response(response)
    /\ pc' = "done"
    /\ UNCHANGED <<self, item_id, now, mac, url, string_to_sign, resp,
                   response, info, calls>>

NextParse == ParseItemResponse

SpecParse == InitParse /\ [][NextParse]_vars

(***************************************************************************)
(* Reading the documents and the URL, for the properties                   *)
(***************************************************************************)
IsTree(doc) == IsDict(doc)
RequestOf(doc) == doc.dict["ItemLookupResponse"].dict["Items"].dict["Request"]
ReportedInvalid(doc) == IsTree(doc) /\ RequestOf(doc).dict["IsValid"] = FalseText
ReportedValid(doc) == IsTree(doc) /\ RequestOf(doc).dict["IsValid"] # FalseText
ItemOf(doc) == doc.dict["ItemLookupResponse"].dict["Items"].dict["Item"]
AttributesOf(doc) == ItemOf(doc).dict["ItemAttributes"]
Has(node, key) == IsDict(node) /\ key \in DOMAIN node.dict

\* parse_item_response has been called on response, directly.
Parsed == pc = "done" /\ IsSet(parse_result) /\ calls = <<>>
ParsedValid == Parsed /\ ReportedValid(response)
ReturnedRecord == ParsedValid /\ "ret" \in DOMAIN parse_result

AttributeKeys ==
    {"Feature", "ItemDimensions", "Title", "Manufacturer", "Model", "Size", "Warranty"}
ItemKeys ==
    ImageNames \cup {"OfferSummary", "EditorialReviews", "DetailPageURL", "SalesRank"}

\* The item holds none of the optional elements the parser reads.
NoOptionalElements(doc) ==
    /\ DOMAIN ItemOf(doc).dict \cap ItemKeys = {}
    /\ \/ IsNone(AttributesOf(doc))
       \/ IsDict(AttributesOf(doc)) /\ DOMAIN AttributesOf(doc).dict \cap AttributeKeys = {}

\* Every field at its documented default.
AllDefaults == [DefaultParsed EXCEPT !.item_attributes = SetKey(@, "model", EmptyStr)]

\* The features and the description are ones that the extraction gets
\* through: a Feature, and at most a single editorial review.
FeaturesAndReviewsPlain(doc) ==
    /\ Has(AttributesOf(doc), "Feature")
    /\ Has(ItemOf(doc), "EditorialReviews") =>
            /\ IsDict(ItemOf(doc).dict["EditorialReviews"])
            /\ IsDict(ItemOf(doc).dict["EditorialReviews"].dict["EditorialReview"])

\* The images are ones that the extraction gets through: no medium image
\* without a small one.
ImagesPlain(doc) == Has(ItemOf(doc), "MediumImage") => Has(ItemOf(doc), "SmallImage")

\* The offers are ones that the extraction gets through: no empty
\* OfferSummary, and no LowestNewPrice that is a text.
OffersPlain(doc) ==
    Has(ItemOf(doc), "OfferSummary") =>
        /\ IsDict(ItemOf(doc).dict["OfferSummary"])
        /\ Has(ItemOf(doc).dict["OfferSummary"], "LowestNewPrice") =>
                IsDict(ItemOf(doc).dict["OfferSummary"].dict["LowestNewPrice"])

\* The elements of the document other than the images are ones that the
\* extraction gets through.
OtherElementsPlain(doc) == FeaturesAndReviewsPlain(doc) /\ OffersPlain(doc)

ImageField(name) ==
    CASE name = "SmallImage" -> "small" [] name = "MediumImage" -> "medium"
      [] name = "LargeImage" -> "large"

\* C1 (default-completeness): a valid document whose item has an
\* ItemAttributes element and none of the optional elements is parsed without
\* an error, into the record of the defaults ('' and the empty sequence).
C1_DefaultCompleteness ==
    (ParsedValid /\ NoOptionalElements(response)) =>
        /\ "ret" \in DOMAIN parse_result
        /\ parse_result.ret = AllDefaults

\* C2 (feature flattening): the features of the returned record are the
\* occurrences of the Feature element in document order: the list of n >= 2
\* occurrences as it is, a single occurrence as a sequence of one.
C2_FeatureFlattening ==
    (ReturnedRecord /\ Has(AttributesOf(response), "Feature")) =>
        LET feature == AttributesOf(response).dict["Feature"]
        IN  parse_result.ret.item_attributes.features =
                IF IsList(feature) THEN feature.list ELSE <<feature>>

\* C3 (invalid-request handling): a document reported invalid makes
\* parse_item_response raise UpstreamError, with no field extraction; the
\* error's message is the embedded Errors/Error/Message when that section is
\* present and the generic invalid-lookup message when it is absent.
C3_RaisesUpstreamError ==
    (Parsed /\ ReportedInvalid(response)) =>
        /\ "err" \in DOMAIN parse_result
        /\ parse_result.err = "UpstreamError"
        /\ ~parse_result.extracted

\* C6 (image independence): whichever of the three images are present, the
\* parse raises nothing, a present image's height, width and url are those of
\* its own element, and an absent image's fields stay ''.
C6_ImageIndependence ==
    (ParsedValid /\ OtherElementsPlain(response)) =>
        /\ "ret" \in DOMAIN parse_result
        /\ \A name \in ImageNames :
            parse_result.ret.images[ImageField(name)] =
                IF Has(ItemOf(response), name)
                THEN LET image == ItemOf(response).dict[name]
                     IN  [height |-> image.dict["Height"].dict["#text"],
                          width |-> image.dict["Width"].dict["#text"],
                          url |-> image.dict["URL"]]
                ELSE [height |-> EmptyStr, width |-> EmptyStr, url |-> EmptyStr]

\* The first editorial-review entry of an EditorialReviews element: of a
\* single block, of the repeated EditorialReview entries of one block, or of
\* repeated blocks.
FirstReview(reviews) ==
    LET block == IF IsList(reviews) THEN reviews.list[1] ELSE reviews
        entry == block.dict["EditorialReview"]
    IN  IF IsList(entry) THEN entry.list[1] ELSE entry

\* C7 (description is a plain string): with an EditorialReviews element, the
\* description of the returned record is the Content text of the first
\* editorial-review entry.
C7_DescriptionIsContent ==
    (ReturnedRecord /\ Has(ItemOf(response), "EditorialReviews")) =>
        parse_result.ret.description =
            FirstReview(ItemOf(response).dict["EditorialReviews"]).dict["Content"]

\* The FormattedPrice of OfferSummary/LowestNewPrice, or '' when the path is
\* not there.
LowestNewFormattedPrice(item) ==
    IF /\ Has(item, "OfferSummary")
       /\ Has(item.dict["OfferSummary"], "LowestNewPrice")
       /\ Has(item.dict["OfferSummary"].dict["LowestNewPrice"], "FormattedPrice")
    THEN item.dict["OfferSummary"].dict["LowestNewPrice"].dict["FormattedPrice"]
    ELSE EmptyStr

\* C10 (price selectivity): for a valid document the parse returns a record
\* whose price is the FormattedPrice of OfferSummary/LowestNewPrice when that
\* path is present, and '' whenever OfferSummary, LowestNewPrice or its
\* FormattedPrice is absent, whatever other offer prices the document carries.
C10_PriceSelectivity ==
    (ParsedValid /\ FeaturesAndReviewsPlain(response) /\ ImagesPlain(response)) =>
        /\ "ret" \in DOMAIN parse_result
        /\ parse_result.ret.price = LowestNewFormattedPrice(ItemOf(response))

(***************************************************************************)
(* Reading a URL, as the service that verifies the signature does          *)
(***************************************************************************)
Positions(s, c) == {i \in 1..Len(s) : s[i] = c}
Least(S) == CHOOSE i \in S : \A j \in S : i <= j

\* The parts of s between the occurrences of sep, in order.
Split(s, sep) ==
    LET seps == Positions(s, sep)
        starts == {1} \cup {i + 1 : i \in seps}
        Rank(k) == CHOOSE start \in starts : Cardinality({t \in starts : t <= start}) = k
        End(start) == Least({i \in seps : i >= start} \cup {Len(s) + 1}) - 1
    IN  [k \in 1..Cardinality(starts) |-> SubSeq(s, Rank(k), End(Rank(k)))]

\* What follows the first '?' of a URL.
QueryOf(u) == SubSeq(u, Least(Positions(u, "?")) + 1, Len(u))

\* The name and the value of a name=value parameter, as they are written.
NameOf(parameter) == SubSeq(parameter, 1, Least(Positions(parameter, "=") \cup {Len(parameter) + 1}) - 1)
ValueOf(parameter) == SubSeq(parameter, Least(Positions(parameter, "=") \cup {Len(parameter)}) + 1, Len(parameter))

Parameters(u) == Split(QueryOf(u), "&")
ParameterNames(u) == [k \in 1..Len(Parameters(u)) |-> NameOf(Parameters(u)[k])]

StrictlyAscending(names) ==
    \A k \in 1..(Len(names) - 1) : StrLess(names[k], names[k + 1])

HexValue(c) == (CHOOSE i \in 1..Len(HexDigits) : HexDigits[i] = c) - 1
Chr(n) == Ascii[n - AsciiBase]

\* Percent-decoding, once: %XY is the character of that code, '+' a space.
RECURSIVE UnquoteFrom(_, _)
UnquoteFrom(s, i) ==
    IF i > Len(s) THEN <<>>
    ELSE IF s[i] = "%" /\ i + 2 <= Len(s)
    THEN <<Chr(HexValue(s[i + 1]) * HexBase + HexValue(s[i + 2]))>> \o UnquoteFrom(s, i + 3)
    ELSE IF s[i] = "+" THEN <<" ">> \o UnquoteFrom(s, i + 1)
    ELSE <<s[i]>> \o UnquoteFrom(s, i + 1)
Unquote(s) == UnquoteFrom(s, 1)

\* The characters a query string's names and values are written in.
QueryCharacters == AlwaysSafe \cup {"%", "+"}

SignatureName == <<"S", "i", "g", "n", "a", "t", "u", "r", "e">>

\* gen_item_lookup_request_url has returned the URL.
Signed == pc = "get" /\ IsSet(url)

HasReserved(v) == IsStr(v) /\ \E i \in 1..Len(v.str) : v.str[i] \notin AlwaysSafe

\* C4 as stated (canonical ordering): the names of all the parameters of the
\* signed URL, the appended Signature included, are in strict ascending
\* byte-wise order.
C4_AllNamesAscending == Signed => StrictlyAscending(ParameterNames(url.str))

\* C4 as amended: the names of the parameters of the canonical query string,
\* which are all the parameters of the signed URL but the last, are in strict
\* ascending byte-wise order (so none occurs twice) and are the keys of
\* url_params; the last parameter is Signature, appended after them.
C4_CanonicalNamesAscending ==
    Signed =>
        LET names == ParameterNames(url.str)
            canonical == SubSeq(names, 1, Len(names) - 1)
        IN  /\ StrictlyAscending(canonical)
            /\ {canonical[k] : k \in 1..Len(canonical)} = DOMAIN UrlParams(self, item_id, now)
            /\ Len(canonical) = Cardinality(DOMAIN UrlParams(self, item_id, now))
            /\ names[Len(names)] = SignatureName

\* A URL of nine parameters has been returned for an item id and a partner
\* tag with reserved characters.
C4_Witness ==
    /\ Signed
    /\ Len(ParameterNames(url.str)) = 9
    /\ HasReserved(item_id)
    /\ HasReserved(self.associate_tag)

\* The fourth line of the string to sign.
CanonicalLine(msg) == Split(msg, "\n")[4]

\* C9 (encode-once consistency): the query string of the URL is the fourth
\* line of the string to sign followed by '&Signature=' and the
\* percent-encoded base64 signature; every parameter is written in
\* query-string characters only, and decoding it once gives back the name and
\* the value of url_params.
C9_EncodeOnce ==
    Signed =>
        LET line == CanonicalLine(string_to_sign.str)
            signed == Split(line, "&")
            sent == Parameters(url.str)
            url_params == UrlParams(self, item_id, now)
        IN  /\ Len(Split(string_to_sign.str, "\n")) = 4
            /\ url.str = Endpoint \o line \o SignatureParameter
                            \o quote_plus(strip(encodestring(mac)))
            /\ Len(sent) = Len(signed) + 1
            /\ Unquote(ValueOf(sent[Len(sent)])) = strip(encodestring(mac))
            /\ Len(signed) = Cardinality(DOMAIN url_params)
            /\ \A k \in 1..Len(signed) :
                /\ sent[k] = signed[k]
                /\ \A i \in 1..Len(signed[k]) : signed[k][i] \in QueryCharacters \cup {"="}
                /\ Unquote(NameOf(signed[k])) \in DOMAIN url_params
                /\ Unquote(ValueOf(signed[k])) = PyStr(url_params[Unquote(NameOf(signed[k]))])

\* A URL has been returned for an item id and a partner tag with reserved
\* characters and a signature whose base64 holds '+'.
C9_Witness ==
    /\ Signed
    /\ HasReserved(item_id)
    /\ HasReserved(self.associate_tag)
    /\ "+" \in {strip(encodestring(mac))[i] : i \in 1..Len(strip(encodestring(mac)))}

CredentialMissing(v) == IsNone(v) \/ v = EmptyStr
ConfigurationMissing ==
    \/ CredentialMissing(self.aws_access_key)
    \/ CredentialMissing(self.aws_secret_key)
    \/ CredentialMissing(self.associate_tag)

Ops == [k \in 1..Len(calls) |-> calls[k].op]

\* C5 (configuration errors): with an absent or empty access key, secret key
\* or partner tag, gen_item_lookup_request_url fails with ConfigurationError,
\* and get_item_info never reaches the HTTP transport.
C5_ConfigurationError ==
    (ConfigurationMissing /\ pc # "sign") =>
        /\ pc = "done"
        /\ info = Err("ConfigurationError")
        /\ Ops = <<"sign">>

\* C8 (lookup sequencing): the calls of a get_item_info are, in this order,
\* the signing of the item id, one GET of the URL it returned, and, only
\* after a status of 200, one parse of the response body; after any other
\* status the parser is not called, nothing is raised and the result is the
\* empty dict.
C8_LookupSequencing ==
    /\ Ops = SubSeq(<<"sign", "get", "parse">>, 1, Len(calls))
    /\ Len(calls) >= 1 => calls[1].arg = item_id
    /\ Len(calls) >= 2 => IsSet(url) /\ calls[2].arg = url
    /\ Len(calls) >= 3 =>
            /\ resp.status_code = OkStatus
            /\ calls[3].arg = resp.content
            /\ IsSet(parse_result)
    /\ (pc = "done" /\ IsSet(resp)) =>
            IF resp.status_code = OkStatus
            THEN Len(calls) = 3
            ELSE /\ Len(calls) = 2
                 /\ ~IsSet(parse_result)
                 /\ info = [ret |-> EmptyDict]

\* A lookup has ended after a status other than 200, with the empty dict.
C8_Witness ==
    /\ pc = "done"
    /\ IsSet(resp)
    /\ resp.status_code # OkStatus
    /\ Ops = <<"sign", "get">>
    /\ info = [ret |-> EmptyDict]

====
